---- MODULE Spec2Model ----
(***************************************************************************)
(* A model of LLM-Python: the prompt splitter of ModelBase, the model      *)
(* registry and the per-model semaphores of Api, and the tasks that        *)
(* Api.prompt_model schedules on the event loop of the calling thread.     *)
(*                                                                         *)
(* A prompt is a sequence of tokens.  Each of the four section markers is  *)
(* one token (no marker is a substring of another, and none overlaps       *)
(* itself, so the occurrences of the markers in a text are unambiguous);   *)
(* "w" is any character that is neither whitespace nor part of a marker,   *)
(* " " is a whitespace character.                                          *)
(***************************************************************************)
EXTENDS Integers, Sequences, FiniteSets

\* ---------------------------------------------------------------- bounds
MaxLen == 6
MaxTasks == 2
NumLoops == 2

\* ------------------------------------------------- ModelBase.split_prompt
MarkRules == "Rules"
MarkSummary == "The Summary of the Commit"
MarkAffected == "The Commit's affected files"
MarkResult == "Result"

Markers == {MarkRules, MarkSummary, MarkAffected, MarkResult}
Whitespace == " "
Tokens == Markers \cup {"w", Whitespace}

Docs == UNION {[1..n -> Tokens] : n \in 0..MaxLen}

\* re.split(pattern, string) for a literal pattern: the parts around every
\* occurrence of the marker, one more part than there are occurrences.
RECURSIVE split(_, _)
split(pattern, string) ==
    LET hits == {i \in 1..Len(string) : string[i] = pattern}
    IN  IF hits = {}
        THEN <<string>>
        ELSE LET i == CHOOSE h \in hits : \A g \in hits : h <= g
             IN  <<SubSeq(string, 1, i - 1)>>
                 \o split(pattern, SubSeq(string, i + 1, Len(string)))

\* str.strip(): leading and trailing whitespace removed.
RECURSIVE lstrip(_)
lstrip(s) ==
    IF s # <<>> /\ Head(s) = Whitespace THEN lstrip(Tail(s)) ELSE s

RECURSIVE rstrip(_)
rstrip(s) ==
    IF s # <<>> /\ s[Len(s)] = Whitespace
    THEN rstrip(SubSeq(s, 1, Len(s) - 1))
    ELSE s

stripNone(s) == s

strip(s) == rstrip(lstrip(s))

\* The dataclass SplitPrompt; err = "none" for a returned value.  A call
\* that raises is the record with err = "ValueError" (the unpacking of a
\* list that does not hold exactly two parts) and empty fields.
SplitPrompt(i, r, s, a, x) ==
    [err |-> "none", Instructions |-> i, Rules |-> r, Summary |-> s,
     AffectedFiles |-> a, Result |-> x]

SplitError ==
    [err |-> "ValueError", Instructions |-> <<>>, Rules |-> <<>>,
     Summary |-> <<>>, AffectedFiles |-> <<>>, Result |-> <<>>]

NotSplit ==
    [err |-> "not called", Instructions |-> <<>>, Rules |-> <<>>,
     Summary |-> <<>>, AffectedFiles |-> <<>>, Result |-> <<>>]

\* split_prompt without the .strip() calls of its return statement.
split_promptNoStrip(prompt) ==
    LET p1 == split(MarkRules, prompt) IN
    IF Len(p1) # 2 THEN SplitError ELSE
    LET p2 == split(MarkSummary, p1[2]) IN
    IF Len(p2) # 2 THEN SplitError ELSE
    LET p3 == split(MarkAffected, p2[2]) IN
    IF Len(p3) # 2 THEN SplitError ELSE
    LET p4 == split(MarkResult, p3[2]) IN
    IF Len(p4) # 2 THEN SplitError ELSE
    SplitPrompt(stripNone(p1[1]), stripNone(p2[1]), stripNone(p3[1]),
                stripNone(p4[1]), stripNone(p4[2]))

split_prompt(prompt) ==
    LET p1 == split(MarkRules, prompt) IN
    IF Len(p1) # 2 THEN SplitError ELSE
    LET p2 == split(MarkSummary, p1[2]) IN
    IF Len(p2) # 2 THEN SplitError ELSE
    LET p3 == split(MarkAffected, p2[2]) IN
    IF Len(p3) # 2 THEN SplitError ELSE
    LET p4 == split(MarkResult, p3[2]) IN
    IF Len(p4) # 2 THEN SplitError ELSE
    SplitPrompt(strip(p1[1]), strip(p2[1]), strip(p3[1]),
                strip(p4[1]), strip(p4[2]))


\* ------------------------------------------------- the backends' prompt()
\* The classes under models/impl.  Api imports the first three.
Variants ==
    {"Mistral8x7BInstructV01", "LLama2_xB_Chat", "CodeLLama_xB_Instruct",
     "Gemma_7B_Instruct"}

\* "\n\n" in the f-strings.
NL2 == <<Whitespace, Whitespace>>

\* The closing request of every variant ("Report the percentage ...").
Request == <<"Report">>

\* A message of a chat template: its role, then its content.
Message(role, content) == <<role>> \o content

\* The section a variant writes for the rules: marker, blank line, rules.
RulesBlock(rules) == <<MarkRules>> \o NL2 \o rules \o NL2

\* Summary and affected files, as Mistral and CodeLLama write them.
CommitBlock(s) ==
    <<MarkSummary>> \o NL2 \o s.Summary \o NL2
    \o <<MarkAffected>> \o NL2 \o s.AffectedFiles

\* use_prompt of LLama2_xB_Chat and Gemma_7B_Instruct: one text, always
\* with the rules.
UsePrompt(s) ==
    s.Instructions \o NL2 \o <<MarkRules>> \o s.Rules \o NL2
    \o <<MarkSummary>> \o NL2 \o s.Summary \o NL2
    \o <<MarkAffected>> \o NL2 \o s.AffectedFiles \o NL2
    \o <<MarkResult>> \o Request

ModelInput(input) == [err |-> "none", input |-> input]

PromptRaised(e) == [err |-> e, input |-> << >>]

\* prompt(prompt, include_rules) of variant v up to the call of the model:
\* what the model is given, or what was raised.
BackendInput(v, prompt, include_rules) ==
    IF v = "LLama2_xB_Chat" /\ ~include_rules THEN PromptRaised("Exception")
    ELSE LET s == split_prompt(prompt) IN
    IF s.err # "none" THEN PromptRaised(s.err)
    ELSE IF v = "Mistral8x7BInstructV01"
    THEN ModelInput(
            Message("user", s.Instructions)
            \o Message("assistant",
                   (IF include_rules THEN RulesBlock(s.Rules) ELSE << >>)
                   \o CommitBlock(s))
            \o Message("user", Request))
    ELSE IF v = "CodeLLama_xB_Instruct"
    THEN ModelInput(
            Message("system",
                   s.Instructions
                   \o (IF include_rules THEN NL2 \o RulesBlock(s.Rules)
                       ELSE << >>)
                   \o CommitBlock(s))
            \o Message("user", Request))
    ELSE ModelInput(UsePrompt(s))

\* A call of prompt(): the variant, include_rules, and what came of it.
PromptCall(v, include_rules, out) ==
    [variant |-> v, include_rules |-> include_rules,
     err |-> out.err, input |-> out.input]

NotPrompted == PromptCall("none", TRUE, PromptRaised("not called"))

\* --------------------------------------------------------------- Api state
VARIABLES
    models,     \* Api.models: the registry, model name -> backend instance
    locks,      \* Api.locks: model name -> counter of its Semaphore
    tasks,      \* the submissions so far, one record per prompt_model call
    queue,      \* per event loop: the scheduled tasks that have not started
    cur,        \* per event loop: the task its thread is running, 0 if none
    ctorCalls,  \* model name -> number of calls of the class constructor
    ctorDone,   \* model name -> number of constructor calls that returned
    raw,        \* the argument of ModelBase.split_prompt
    sp,         \* what ModelBase.split_prompt gave for raw
    composed    \* a call of a backend's prompt() on raw: what it fed the model

vars ==
    <<models, locks, tasks, queue, cur, ctorCalls, ctorDone, raw, sp,
      composed>>

apiVars == <<models, locks, tasks, queue, cur, ctorCalls, ctorDone>>

available_models ==
    <<"Mistral8x7BInstructV01", "LLama2_xB_Chat", "CodeLLama_xB_Instruct">>

Known == {available_models[i] : i \in 1..Len(available_models)}

\* The names a caller passes: the known ones and one that is not known.
ModelNames == Known \cup {"NotAModel"}

Loops == 1..NumLoops

\* The prompts callers submit: the authors' document, reduced to one
\* character per section, and a document without its last three markers.
GoodPrompt ==
    <<"w", MarkRules, "w", MarkSummary, "w", MarkAffected, "w",
      MarkResult, "w">>

BadPrompt == <<"w", MarkRules, "w">>

PromptSamples == {GoodPrompt, BadPrompt}

\* asyncio.Future: its state and what it holds.
PendingFuture == [state |-> "pending", value |-> "none"]

Done(f) == f.state # "pending"

\* Future.set_result / Future.set_exception: InvalidStateError when the
\* future is already done (resolved or cancelled).
CanSet(f) == ~Done(f)

\* The required parameters of the model classes besides dev.
RequiredArgs(m) ==
    IF m \in {"LLama2_xB_Chat", "CodeLLama_xB_Instruct"} THEN {"size"} ELSE {}

\* globals()[model](dev=self.dev, **kwargs): a missing required argument
\* is a TypeError before __init__ runs; otherwise the libraries load the
\* weights, which works (loads) or raises.
Constructor(m, kwargs, loads) ==
    IF ~(RequiredArgs(m) \subseteq kwargs) THEN "TypeError"
    ELSE IF ~loads THEN "BackendError"
    ELSE "ok"

\* The keyword arguments prompt_model passes on to _get_model: none.
PromptModelKwargs == {}

NewTask(m, p, l) ==
    [model |-> m, prompt |-> p, loop |-> l, pc |-> "queued",
     got_lock |-> FALSE, instance |-> 0, ex |-> "none", escaped |-> "none",
     future |-> PendingFuture]

TaskIds == 1..Len(tasks)

\* The event loops (threads) are alike: they are numbered in the order in
\* which they first get a task, so a caller is on a used loop or on the
\* next unused one.
UsedLoops == {tasks[t].loop : t \in TaskIds}

CallerLoops == {l \in Loops : l <= Cardinality(UsedLoops) + 1}

Running(t) == cur[tasks[t].loop] = t

ApiInit ==
    /\ models = [m \in {} |-> 0]
    /\ locks = [m \in Known |-> 1]
    /\ tasks = << >>
    /\ queue = [l \in Loops |-> << >>]
    /\ cur = [l \in Loops |-> 0]
    /\ ctorCalls = [m \in ModelNames |-> 0]
    /\ ctorDone = [m \in ModelNames |-> 0]

Init ==
    /\ ApiInit
    /\ raw = << >>
    /\ sp = NotSplit
    /\ composed = NotPrompted


\* ------------------------------------------------------- Api.prompt_model
\* prompt_model run eagerly: the body up to the acquire is executed by the
\* caller before the future is returned.
SubmitEager(l, m, p) ==
    /\ Len(tasks) < MaxTasks
    /\ cur[l] = 0
    /\ m \in DOMAIN locks
    /\ locks[m] > 0
    /\ locks' = [locks EXCEPT ![m] = @ - 1]
    /\ tasks' = Append(tasks, [NewTask(m, p, l) EXCEPT
                                 !.got_lock = TRUE, !.pc = "get_model"])
    /\ cur' = [cur EXCEPT ![l] = Len(tasks) + 1]
    /\ UNCHANGED <<models, queue, ctorCalls, ctorDone, raw, sp, composed>>

\* prompt_model(model, prompt), called on the thread of event loop l: a
\* new Future, create_task of the coroutine on that loop, return.
Submit(l, m, p) ==
    /\ Len(tasks) < MaxTasks
    /\ cur[l] = 0
    /\ tasks' = Append(tasks, NewTask(m, p, l))
    /\ queue' = [queue EXCEPT ![l] = Append(@, Len(tasks) + 1)]
    /\ UNCHANGED <<models, locks, cur, ctorCalls, ctorDone, raw, sp, composed>>

\* The event loop runs the task scheduled last first: a stack of ready
\* tasks in place of the queue.
StartNewest(l) ==
    /\ cur[l] = 0
    /\ queue[l] # << >>
    /\ cur' = [cur EXCEPT ![l] = queue[l][Len(queue[l])]]
    /\ queue' = [queue EXCEPT ![l] = SubSeq(@, 1, Len(@) - 1)]
    /\ tasks' = [tasks EXCEPT ![queue[l][Len(queue[l])]].pc = "acquire"]
    /\ UNCHANGED <<models, locks, ctorCalls, ctorDone, raw, sp, composed>>

\* The coroutine returns at once when its future is already cancelled.
StartSkipCancelled(l) ==
    /\ cur[l] = 0
    /\ queue[l] # << >>
    /\ queue' = [queue EXCEPT ![l] = Tail(@)]
    /\ IF tasks[Head(queue[l])].future.state = "cancelled"
       THEN /\ tasks' = [tasks EXCEPT ![Head(queue[l])].pc = "done"]
            /\ UNCHANGED cur
       ELSE /\ tasks' = [tasks EXCEPT ![Head(queue[l])].pc = "acquire"]
            /\ cur' = [cur EXCEPT ![l] = Head(queue[l])]
    /\ UNCHANGED <<models, locks, ctorCalls, ctorDone, raw, sp, composed>>

\* The event loop takes the next scheduled task: got_lock = False, try.
Start(l) ==
    /\ cur[l] = 0
    /\ queue[l] # << >>
    /\ cur' = [cur EXCEPT ![l] = Head(queue[l])]
    /\ queue' = [queue EXCEPT ![l] = Tail(@)]
    /\ tasks' = [tasks EXCEPT ![Head(queue[l])].pc = "acquire"]
    /\ UNCHANGED <<models, locks, ctorCalls, ctorDone, raw, sp, composed>>

\* acquire(blocking=False): a busy semaphore gives False and the task goes
\* on without the lock.
AcquireNonBlocking(t) ==
    /\ Running(t)
    /\ tasks[t].pc = "acquire"
    /\ LET m == tasks[t].model IN
       IF m \notin DOMAIN locks
       THEN /\ tasks' = [tasks EXCEPT ![t].ex = "KeyError", ![t].pc = "except"]
            /\ UNCHANGED locks
       ELSE IF locks[m] > 0
       THEN /\ locks' = [locks EXCEPT ![m] = @ - 1]
            /\ tasks' = [tasks EXCEPT ![t].got_lock = TRUE,
                                      ![t].pc = "get_model"]
       ELSE /\ tasks' = [tasks EXCEPT ![t].pc = "get_model"]
            /\ UNCHANGED locks
    /\ UNCHANGED <<models, queue, cur, ctorCalls, ctorDone, raw, sp, composed>>

\* self.locks.setdefault(model, Semaphore(1)).acquire(): an unknown name
\* gets a lock of its own.
AcquireSetDefault(t) ==
    /\ Running(t)
    /\ tasks[t].pc = "acquire"
    /\ LET m == tasks[t].model
           ls == [n \in DOMAIN locks \cup {m} |->
                     IF n \in DOMAIN locks THEN locks[n] ELSE 1]
       IN  /\ ls[m] > 0
           /\ locks' = [ls EXCEPT ![m] = @ - 1]
           /\ tasks' = [tasks EXCEPT ![t].got_lock = TRUE,
                                     ![t].pc = "get_model"]
    /\ UNCHANGED <<models, queue, cur, ctorCalls, ctorDone, raw, sp, composed>>

\* _get_model is called before the lock is looked up: an unknown name
\* meets the check of _get_model first.
AcquireAfterGetModel(t) ==
    /\ Running(t)
    /\ tasks[t].pc = "acquire"
    /\ LET m == tasks[t].model IN
       IF m \notin Known
       THEN /\ tasks' = [tasks EXCEPT ![t].ex = "Exception",
                                      ![t].pc = "except"]
            /\ UNCHANGED locks
       ELSE /\ locks[m] > 0
            /\ locks' = [locks EXCEPT ![m] = @ - 1]
            /\ tasks' = [tasks EXCEPT ![t].got_lock = TRUE,
                                      ![t].pc = "get_model"]
    /\ UNCHANGED <<models, queue, cur, ctorCalls, ctorDone, raw, sp, composed>>

\* got_lock = self.locks[model].acquire(blocking=True): KeyError for a
\* name without a lock; otherwise the thread waits until the counter is
\* positive and takes it.
Acquire(t) ==
    /\ Running(t)
    /\ tasks[t].pc = "acquire"
    /\ LET m == tasks[t].model IN
       IF m \notin DOMAIN locks
       THEN /\ tasks' = [tasks EXCEPT ![t].ex = "KeyError", ![t].pc = "except"]
            /\ UNCHANGED locks
       ELSE /\ locks[m] > 0
            /\ locks' = [locks EXCEPT ![m] = @ - 1]
            /\ tasks' = [tasks EXCEPT ![t].got_lock = TRUE,
                                      ![t].pc = "get_model"]
    /\ UNCHANGED <<models, queue, cur, ctorCalls, ctorDone, raw, sp, composed>>

\* _get_model without the look-up in self.models: it always instantiates.
GetModelNoCache(t) ==
    /\ Running(t)
    /\ tasks[t].pc = "get_model"
    /\ LET m == tasks[t].model IN
       IF m \notin Known
       THEN tasks' = [tasks EXCEPT ![t].ex = "Exception", ![t].pc = "except"]
       ELSE tasks' = [tasks EXCEPT ![t].pc = "construct"]
    /\ UNCHANGED <<models, locks, queue, cur, ctorCalls, ctorDone, raw, sp, composed>>

\* _get_model up to the instantiation: the name is checked, then the
\* registry; a cached instance is returned.
GetModel(t) ==
    /\ Running(t)
    /\ tasks[t].pc = "get_model"
    /\ LET m == tasks[t].model IN
       IF m \notin Known
       THEN tasks' = [tasks EXCEPT ![t].ex = "Exception", ![t].pc = "except"]
       ELSE IF m \notin DOMAIN models
       THEN tasks' = [tasks EXCEPT ![t].pc = "construct"]
       ELSE tasks' = [tasks EXCEPT ![t].instance = models[m],
                                   ![t].pc = "prompt"]
    /\ UNCHANGED <<models, locks, queue, cur, ctorCalls, ctorDone, raw, sp, composed>>

\* The registry slot is filled before the constructor is called, so a
\* constructor that raises leaves an entry behind.
ConstructCachesFailure(t, loads) ==
    /\ Running(t)
    /\ tasks[t].pc = "construct"
    /\ LET m == tasks[t].model
           out == Constructor(m, PromptModelKwargs, loads)
           id == ctorCalls[m] + 1
       IN  /\ ctorCalls' = [ctorCalls EXCEPT ![m] = id]
           /\ models' = [n \in DOMAIN models \cup {m} |->
                            IF n = m THEN id ELSE models[n]]
           /\ IF out = "ok"
              THEN /\ ctorDone' = [ctorDone EXCEPT ![m] = @ + 1]
                   /\ tasks' = [tasks EXCEPT ![t].instance = id,
                                             ![t].pc = "prompt"]
              ELSE /\ tasks' = [tasks EXCEPT ![t].ex = out,
                                             ![t].pc = "except"]
                   /\ UNCHANGED ctorDone
    /\ UNCHANGED <<locks, queue, cur, raw, sp, composed>>

\* self.models[model] = globals()[model](dev=self.dev, **kwargs) and the
\* return of the new instance.  An instance is named by its model and the
\* number of the constructor call that made it.
Construct(t, loads) ==
    /\ Running(t)
    /\ tasks[t].pc = "construct"
    /\ LET m == tasks[t].model
           out == Constructor(m, PromptModelKwargs, loads)
           id == ctorCalls[m] + 1
       IN  /\ ctorCalls' = [ctorCalls EXCEPT ![m] = id]
           /\ IF out = "ok"
              THEN /\ ctorDone' = [ctorDone EXCEPT ![m] = @ + 1]
                   /\ models' = [n \in DOMAIN models \cup {m} |->
                                    IF n = m THEN id ELSE models[n]]
                   /\ tasks' = [tasks EXCEPT ![t].instance = id,
                                             ![t].pc = "prompt"]
              ELSE /\ tasks' = [tasks EXCEPT ![t].ex = out,
                                             ![t].pc = "except"]
                   /\ UNCHANGED <<models, ctorDone>>
    /\ UNCHANGED <<locks, queue, cur, raw, sp, composed>>


\* What prompt() of a backend does before it generates: LLama2_xB_Chat
\* refuses include_rules=False, then every class splits the prompt.
PromptOutcome(m, prompt, include_rules) ==
    LET e == BackendInput(m, prompt, include_rules).err
    IN  IF e = "none" THEN "ok" ELSE e

\* prompt_model calls instance.prompt(prompt=prompt): include_rules keeps
\* its default.
IncludeRulesDefault == TRUE

\* The result is written into the future whatever state the future is in.
PromptOverwrite(t, ok) ==
    /\ Running(t)
    /\ tasks[t].pc = "prompt"
    /\ LET out == PromptOutcome(tasks[t].model, tasks[t].prompt,
                                IncludeRulesDefault)
       IN  IF out # "ok"
           THEN tasks' = [tasks EXCEPT ![t].ex = out, ![t].pc = "except"]
           ELSE IF ~ok
           THEN tasks' = [tasks EXCEPT ![t].ex = "BackendError",
                                       ![t].pc = "except"]
           ELSE tasks' = [tasks EXCEPT
                            ![t].future = [state |-> "success",
                                           value |-> "text"],
                            ![t].pc = "finally"]
    /\ UNCHANGED <<models, locks, queue, cur, ctorCalls, ctorDone, raw, sp, composed>>

\* future.set_result(instance.prompt(prompt=prompt)): prompt() raises on
\* a prompt it cannot split, else the model generates and returns the text
\* (ok) or raises; set_result raises InvalidStateError on a done future.
\* The call is in progress while the task is at "prompt".
Prompt(t, ok) ==
    /\ Running(t)
    /\ tasks[t].pc = "prompt"
    /\ LET out == PromptOutcome(tasks[t].model, tasks[t].prompt,
                                IncludeRulesDefault)
       IN  IF out # "ok"
           THEN tasks' = [tasks EXCEPT ![t].ex = out, ![t].pc = "except"]
           ELSE IF ~ok
           THEN tasks' = [tasks EXCEPT ![t].ex = "BackendError",
                                       ![t].pc = "except"]
           ELSE IF CanSet(tasks[t].future)
           THEN tasks' = [tasks EXCEPT
                            ![t].future = [state |-> "success",
                                           value |-> "text"],
                            ![t].pc = "finally"]
           ELSE tasks' = [tasks EXCEPT ![t].ex = "InvalidStateError",
                                       ![t].pc = "except"]
    /\ UNCHANGED <<models, locks, queue, cur, ctorCalls, ctorDone, raw, sp, composed>>

\* except Exception: pass
ExceptSwallow(t) ==
    /\ Running(t)
    /\ tasks[t].pc = "except"
    /\ tasks' = [tasks EXCEPT ![t].pc = "finally"]
    /\ UNCHANGED <<models, locks, queue, cur, ctorCalls, ctorDone, raw, sp, composed>>

\* except Exception as ex: future.set_exception(ex).  On a done future
\* set_exception raises InvalidStateError, which leaves the handler.
Except(t) ==
    /\ Running(t)
    /\ tasks[t].pc = "except"
    /\ IF CanSet(tasks[t].future)
       THEN tasks' = [tasks EXCEPT
                        ![t].future = [state |-> "failure",
                                       value |-> tasks[t].ex],
                        ![t].pc = "finally"]
       ELSE tasks' = [tasks EXCEPT ![t].escaped = "InvalidStateError",
                                   ![t].pc = "finally"]
    /\ UNCHANGED <<models, locks, queue, cur, ctorCalls, ctorDone, raw, sp, composed>>

\* The release moved to the end of the try block: it is skipped when
\* anything raised.
FinallyOnSuccess(t) ==
    /\ Running(t)
    /\ tasks[t].pc = "finally"
    /\ IF tasks[t].got_lock /\ tasks[t].ex = "none"
       THEN locks' = [locks EXCEPT ![tasks[t].model] = @ + 1]
       ELSE UNCHANGED locks
    /\ tasks' = [tasks EXCEPT ![t].pc = "done"]
    /\ cur' = [cur EXCEPT ![tasks[t].loop] = 0]
    /\ UNCHANGED <<models, queue, ctorCalls, ctorDone, raw, sp, composed>>

\* A release in the except block too: after a failure the lock is given
\* back twice.
FinallyExtraRelease(t) ==
    /\ Running(t)
    /\ tasks[t].pc = "finally"
    /\ IF tasks[t].got_lock
       THEN locks' = [locks EXCEPT ![tasks[t].model] =
                         IF tasks[t].ex = "none" THEN @ + 1 ELSE @ + 2]
       ELSE UNCHANGED locks
    /\ tasks' = [tasks EXCEPT ![t].pc = "done"]
    /\ cur' = [cur EXCEPT ![tasks[t].loop] = 0]
    /\ UNCHANGED <<models, queue, ctorCalls, ctorDone, raw, sp, composed>>

\* finally: if got_lock: self.locks[model].release(); the task ends and
\* its thread is the event loop's again.
Finally(t) ==
    /\ Running(t)
    /\ tasks[t].pc = "finally"
    /\ IF tasks[t].got_lock
       THEN locks' = [locks EXCEPT ![tasks[t].model] = @ + 1]
       ELSE UNCHANGED locks
    /\ tasks' = [tasks EXCEPT ![t].pc = "done"]
    /\ cur' = [cur EXCEPT ![tasks[t].loop] = 0]
    /\ UNCHANGED <<models, queue, ctorCalls, ctorDone, raw, sp, composed>>

\* ---------------------------------------------------- the caller's side
\* The caller cancels the future it got, before the loop has run the task.
Cancel(t) ==
    /\ tasks[t].pc = "queued"
    /\ cur[tasks[t].loop] = 0
    /\ ~Done(tasks[t].future)
    /\ tasks' = [tasks EXCEPT
                   ![t].future = [state |-> "cancelled", value |-> "none"]]
    /\ UNCHANGED <<models, locks, queue, cur, ctorCalls, ctorDone, raw, sp, composed>>

Next ==
    \/ \E l \in CallerLoops, m \in ModelNames, p \in PromptSamples :
          Submit(l, m, p)
    \/ \E l \in Loops : Start(l)
    \/ \E t \in TaskIds : Acquire(t)
    \/ \E t \in TaskIds : GetModel(t)
    \/ \E t \in TaskIds, loads \in BOOLEAN : Construct(t, loads)
    \/ \E t \in TaskIds, ok \in BOOLEAN : Prompt(t, ok)
    \/ \E t \in TaskIds : Except(t)
    \/ \E t \in TaskIds : Finally(t)
    \/ \E t \in TaskIds : Cancel(t)

Spec == Init /\ [][Next]_vars

\* ------------------------------------------- split_prompt on its own
SplitInit ==
    /\ ApiInit
    /\ raw \in Docs
    /\ sp = NotSplit
    /\ composed = NotPrompted

\* sp = mb.split_prompt(prompt=raw)
CallSplitPrompt ==
    /\ sp = NotSplit
    /\ sp' = split_prompt(raw)
    /\ UNCHANGED <<apiVars, raw, composed>>

SplitNext == CallSplitPrompt

SplitSpec == SplitInit /\ [][SplitNext]_vars

\* --------------------------------------------- prompt() on its own
BackendInit ==
    /\ ApiInit
    /\ raw \in Docs
    /\ sp = NotSplit
    /\ composed = NotPrompted

\* instance.prompt(prompt=raw, include_rules=include_rules) of variant v.
CallPrompt(v, include_rules) ==
    /\ composed = NotPrompted
    /\ composed' = PromptCall(v, include_rules,
                              BackendInput(v, raw, include_rules))
    /\ UNCHANGED <<apiVars, raw, sp>>

BackendNext ==
    \E v \in Variants, include_rules \in BOOLEAN : CallPrompt(v, include_rules)

BackendSpec == BackendInit /\ [][BackendNext]_vars


\* ------------------------------------------------------------- properties
At(t, where) == tasks[t].pc = where

Finished(t) == At(t, "done")

Failure(e) == [state |-> "failure", value |-> e]

WellFormed(p) == split_prompt(p).err = "none"

\* C1: for every known model name at most one call of the backend's
\* prompt() for that name is in progress, however many submissions for the
\* name were made and on whichever event loops.
C1_MutualExclusion ==
    \A m \in Known :
        Cardinality({t \in TaskIds : tasks[t].model = m /\ At(t, "prompt")}) <= 1

\* A second submission for a model waits at the acquire, on another event
\* loop, while the first is inside prompt().
C1_Witness ==
    \E t1, t2 \in TaskIds :
        /\ tasks[t1].model = tasks[t2].model
        /\ tasks[t1].loop # tasks[t2].loop
        /\ At(t1, "prompt")
        /\ At(t2, "acquire")
        /\ Running(t2)

\* C2: a task that took the lock of its model has given it back when it
\* has finished, however it finished: each semaphore counts 1 less the
\* unfinished tasks that took it, so once every task has finished every
\* lock is free.
C2_LockReleased ==
    \A m \in Known :
        locks[m] = 1 - Cardinality({t \in TaskIds :
                           tasks[t].model = m /\ tasks[t].got_lock
                           /\ ~Finished(t)})

\* Every task has finished, each after taking its lock: one by a failure
\* of prompt() that was stored, one by a failure while writing the handle.
C2_Witness ==
    /\ \A t \in TaskIds : Finished(t)
    /\ \E t1, t2 \in TaskIds :
        /\ tasks[t1].got_lock
        /\ tasks[t1].future = Failure("ValueError")
        /\ tasks[t2].got_lock
        /\ tasks[t2].escaped = "InvalidStateError"

\* C3 as stated: the constructor of a model class is called at most once
\* for a name.
C3_ConstructorCalledOnce ==
    \A m \in ModelNames : ctorCalls[m] <= 1

\* C3 as amended: at most one constructor call returns for a name, and a
\* registry entry is the instance that call made.
C3_ConstructedOnce ==
    \A m \in ModelNames :
        /\ ctorDone[m] <= 1
        /\ m \in DOMAIN models => ctorDone[m] = 1

\* Two first-time submissions for a name on two event loops: both got the
\* instance that the one returning constructor call made.
C3_Witness ==
    \E t1, t2 \in TaskIds :
        /\ t1 # t2
        /\ tasks[t1].model = tasks[t2].model
        /\ tasks[t1].loop # tasks[t2].loop
        /\ tasks[t1].instance # 0
        /\ tasks[t2].instance = tasks[t1].instance
        /\ ctorDone[tasks[t1].model] = 1

\* C4: no step of a submission with an unknown model name, from the call
\* of prompt_model to the end of its task, calls a constructor, takes or
\* gives back a lock, or changes the registry or the lock table.
C4_UnknownModelNoEffect ==
    [][\A t \in 1..Len(tasks') :
          (/\ tasks'[t].model \notin Known
           /\ (t > Len(tasks) \/ tasks'[t] # tasks[t]))
          => /\ models' = models
             /\ locks' = locks
             /\ ctorCalls' = ctorCalls
             /\ ~tasks'[t].got_lock]_vars

\* A submission with an unknown name has run to its end, next to a
\* registry that holds a backend.
C4_Witness ==
    \E t \in TaskIds :
        /\ tasks[t].model \notin Known
        /\ Finished(t)
        /\ tasks[t].future = Failure("KeyError")
        /\ DOMAIN models # {}

\* What _get_model (the name check, the constructor) and prompt() (the
\* include_rules check, the split, the generation) raise.
ResolutionOrGenerationFailures ==
    {"Exception", "TypeError", "BackendError", "ValueError"}

\* C5 as stated: a failure raised in a task during the resolution of the
\* model or the generation ends in the handle, as a failure outcome
\* carrying it, and nothing leaves the task.
C5_FailureCaptured ==
    \A t \in TaskIds :
        Finished(t) /\ tasks[t].ex \in ResolutionOrGenerationFailures
        => /\ tasks[t].future = Failure(tasks[t].ex)
           /\ tasks[t].escaped = "none"

\* C5 as amended: so it is, for whatever was raised in the try block,
\* unless the caller has cancelled the handle; then the handle stays
\* cancelled and the InvalidStateError of set_exception leaves the task.
\* A task in which nothing was raised lets nothing out.
C5_FailureCapturedUnlessCancelled ==
    \A t \in TaskIds :
        Finished(t)
        => IF tasks[t].ex = "none"
           THEN tasks[t].escaped = "none"
           ELSE IF tasks[t].future.state = "cancelled"
           THEN tasks[t].escaped = "InvalidStateError"
           ELSE /\ tasks[t].future = Failure(tasks[t].ex)
                /\ tasks[t].escaped = "none"

\* A failure of the construction and a failure of the generation, each
\* stored in its handle.
C5_Witness ==
    \E t1, t2 \in TaskIds :
        /\ Finished(t1)
        /\ Finished(t2)
        /\ tasks[t1].future = Failure("TypeError")
        /\ tasks[t2].future = Failure("BackendError")
        /\ tasks[t2].instance # 0

\* C6: the call of prompt_model adds a task that has not started, with a
\* pending handle, and changes neither a lock, the registry, the
\* constructor calls nor what the event loops are running; a task that has
\* not started holds no lock and no instance.
C6_NonBlockingSubmit ==
    [][/\ Len(tasks') > Len(tasks)
          => /\ tasks'[Len(tasks')].future = PendingFuture
             /\ tasks'[Len(tasks')].pc = "queued"
             /\ locks' = locks
             /\ models' = models
             /\ ctorCalls' = ctorCalls
             /\ cur' = cur
       /\ \A t \in 1..Len(tasks') :
             tasks'[t].pc = "queued"
             => /\ ~tasks'[t].got_lock
                /\ tasks'[t].instance = 0
                /\ tasks'[t].ex = "none"
                /\ tasks'[t].future.state \in {"pending", "cancelled"}]_vars

\* prompt_model has returned a pending handle for a model whose lock
\* another event loop's task holds inside prompt().
C6_Witness ==
    \E t1, t2 \in TaskIds :
        /\ tasks[t1].model = tasks[t2].model
        /\ At(t1, "prompt")
        /\ At(t2, "queued")
        /\ tasks[t2].future = PendingFuture
        /\ locks[tasks[t1].model] = 0

\* C7: a handle is written only while it is pending: one that is done
\* (a result, a failure, cancelled) keeps its state and its value in every
\* later step, and a handle never turns back to pending.
C7_SingleAssignment ==
    [][\A t \in TaskIds :
          Done(tasks[t].future) => tasks'[t].future = tasks[t].future]_vars

\* A handle resolved with a result, and a later submission that has run
\* to its end with a failure.
C7_Witness ==
    \E t1, t2 \in TaskIds :
        /\ t1 < t2
        /\ Finished(t1)
        /\ Finished(t2)
        /\ tasks[t1].future.state = "success"
        /\ tasks[t2].future.state = "failure"

\* C8: of two submissions for one known model name with well-formed
\* prompts, whose handles the caller did not cancel and whose backend did
\* not fail, the prompt() calls do not overlap and both handles hold a
\* result once both tasks have finished.
C8_BothSucceed ==
    \A t1, t2 \in TaskIds :
        (/\ t1 < t2
         /\ tasks[t1].model \in Known
         /\ tasks[t2].model = tasks[t1].model
         /\ WellFormed(tasks[t1].prompt)
         /\ WellFormed(tasks[t2].prompt)
         /\ \A t \in {t1, t2} :
               /\ tasks[t].future.state # "cancelled"
               /\ tasks[t].ex # "BackendError")
        => /\ ~(At(t1, "prompt") /\ At(t2, "prompt"))
           /\ (Finished(t1) /\ Finished(t2)
               => /\ tasks[t1].future.state = "success"
                  /\ tasks[t2].future.state = "success")

\* C12 as stated: the error of an unknown model name is raised to the
\* caller of prompt_model and not in the scheduled task: no task raises
\* for such a name and no handle holds a failure for it.
C12_UnknownRaisedSynchronously ==
    \A t \in TaskIds :
        tasks[t].model \notin Known
        => /\ tasks[t].ex = "none"
           /\ tasks[t].future.state # "failure"

\* C12 as amended: prompt_model returns a handle for an unknown name like
\* for any other; the scheduled task raises KeyError at the look-up of the
\* lock, before _get_model and its name check, and the KeyError is stored
\* in the handle like every other failure (a handle the caller cancelled
\* stays cancelled and InvalidStateError leaves the task).
C12_UnknownCapturedInTask ==
    \A t \in TaskIds :
        tasks[t].model \notin Known
        => /\ tasks[t].pc \in {"queued", "acquire", "except", "finally", "done"}
           /\ tasks[t].ex \in {"none", "KeyError"}
           /\ tasks[t].pc \in {"except", "finally", "done"}
              => tasks[t].ex = "KeyError"
           /\ Finished(t)
              => IF tasks[t].future.state = "cancelled"
                 THEN tasks[t].escaped = "InvalidStateError"
                 ELSE /\ tasks[t].future = Failure("KeyError")
                      /\ tasks[t].escaped = "none"

\* The handle of an unknown name holds the KeyError, and the handle of a
\* known name holds the failure of its prompt.
C12_Witness ==
    \E t1, t2 \in TaskIds :
        /\ tasks[t1].model \notin Known
        /\ tasks[t1].future = Failure("KeyError")
        /\ tasks[t2].model \in Known
        /\ tasks[t2].future = Failure("ValueError")

\* C13: an entry of the registry stays: the name keeps its instance, the
\* constructor is not called for the name again, the keys are known
\* names, and an instance a task got from _get_model is the registry's
\* entry for its model.
C13_RegistryStable ==
    [][/\ \A m \in DOMAIN models :
             /\ m \in DOMAIN models'
             /\ models'[m] = models[m]
             /\ ctorCalls'[m] = ctorCalls[m]
       /\ DOMAIN models' \subseteq Known
       /\ \A t \in 1..Len(tasks') :
             tasks'[t].instance # 0
             => /\ tasks'[t].model \in DOMAIN models'
                /\ tasks'[t].instance = models'[tasks'[t].model]]_vars

\* A finished task made the instance, a later one is inside prompt() of
\* the same instance, after one constructor call.
C13_Witness ==
    \E t1, t2 \in TaskIds :
        /\ t1 # t2
        /\ tasks[t1].model = tasks[t2].model
        /\ Finished(t1)
        /\ At(t2, "prompt")
        /\ tasks[t1].instance # 0
        /\ tasks[t2].instance = models[tasks[t2].model]
        /\ tasks[t2].instance = tasks[t1].instance
        /\ ctorCalls[tasks[t1].model] = 1

\* The task waits for its lock.
WaitsForLock(t) ==
    /\ At(t, "acquire")
    /\ tasks[t].model \in DOMAIN locks
    /\ locks[tasks[t].model] = 0

\* C14: while a task waits for its lock or is inside the generation call,
\* the event loop it runs on can start the next scheduled task.
C14_TasksYield ==
    \A t \in TaskIds :
        (/\ Running(t)
         /\ WaitsForLock(t) \/ At(t, "prompt")
         /\ queue[tasks[t].loop] # << >>)
        => ENABLED Start(tasks[t].loop)

\* C16: the lock table has one lock for each name of available_models
\* and no other, in every state: no step adds or removes a key.
C16_LockTableFixed ==
    DOMAIN locks = Known

\* Submissions for an unknown name and for a known one have run to their
\* ends, one stored a failure; the lock table has its three locks while
\* the registry has no backend for some of the names.
C16_Witness ==
    /\ DOMAIN locks = Known
    /\ DOMAIN models # Known
    /\ \E t1, t2 \in TaskIds :
          /\ Finished(t1)
          /\ Finished(t2)
          /\ tasks[t1].model \notin Known
          /\ tasks[t2].model \in Known
          /\ tasks[t2].future.state = "failure"

\* Where a task is inside _get_model or inside prompt().
UsesBackend(t) == tasks[t].pc \in {"get_model", "construct", "prompt"}

\* C17: a task is inside _get_model or prompt() only for a known name
\* and while it holds the lock of that name: it took the lock before, the
\* counter is 0, no other task of the name is between its acquire and its
\* release, and a task that got an instance had taken the lock.
C17_LockHeldForBackend ==
    \A t \in TaskIds :
        /\ UsesBackend(t)
           => /\ tasks[t].model \in Known
              /\ tasks[t].got_lock
              /\ locks[tasks[t].model] = 0
              /\ \A u \in TaskIds \ {t} :
                    tasks[u].model = tasks[t].model
                    => tasks[u].pc \in {"queued", "acquire", "done"}
        /\ tasks[t].instance # 0 => tasks[t].got_lock
        /\ tasks[t].pc \in {"queued", "acquire"} => ~tasks[t].got_lock

\* A task is inside the constructor with the lock, and a task of another
\* event loop waits for that lock.
C17_Witness ==
    \E t1, t2 \in TaskIds :
        /\ At(t1, "construct")
        /\ tasks[t1].got_lock
        /\ tasks[t2].model = tasks[t1].model
        /\ Running(t2)
        /\ WaitsForLock(t2)

Cancelled(r) == r.future.state = "cancelled"

\* C18: a handle the caller cancelled stays cancelled; its task runs all
\* the same: when it has finished it had taken the lock of a known name,
\* something was raised in it (by the resolution, by prompt(), or by
\* set_result after the generation, on an instance it got), the
\* InvalidStateError of set_exception left it, and its last step gave the
\* lock back.
C18_CancelledHandle ==
    [][\A t \in TaskIds :
          Cancelled(tasks[t])
          => /\ Cancelled(tasks'[t])
             /\ tasks'[t].pc = "done"
                => /\ tasks'[t].model \in Known => tasks'[t].got_lock
                   /\ tasks'[t].ex # "none"
                   /\ tasks'[t].ex = "InvalidStateError"
                      => tasks'[t].instance # 0
                   /\ tasks'[t].escaped = "InvalidStateError"
             /\ (tasks[t].pc = "finally" /\ tasks'[t].pc = "done"
                 /\ tasks[t].got_lock)
                => locks'[tasks[t].model] = locks[tasks[t].model] + 1]_vars

\* A cancelled handle whose task generated a text and has finished, its
\* lock free again.
C18_Witness ==
    \E t \in TaskIds :
        /\ Cancelled(tasks[t])
        /\ Finished(t)
        /\ tasks[t].instance # 0
        /\ tasks[t].ex = "InvalidStateError"
        /\ locks[tasks[t].model] = 1

\* The constructor raised in the task: the missing argument, or the
\* loading; the task has no instance.
CtorFailed(r) ==
    r.ex \in {"TypeError", "BackendError"} /\ r.instance = 0

CtorFailures(m) ==
    Cardinality({t \in TaskIds : tasks[t].model = m /\ CtorFailed(tasks[t])})

\* C19 as stated: the failure of the constructor is in the handle of the
\* finished task, and every task in which the constructor raised made a
\* call of its own.
C19_FailedConstructionStored ==
    /\ \A t \in TaskIds :
          Finished(t) /\ CtorFailed(tasks[t])
          => tasks[t].future = Failure(tasks[t].ex)
    /\ \A m \in Known : ctorCalls[m] = ctorDone[m] + CtorFailures(m)

\* C19 as amended: the step in which the constructor raises leaves the
\* registry as it was, without an entry for the name; the failure is in
\* the handle of the finished task unless the caller cancelled the handle
\* (then InvalidStateError left the task); and every task in which the
\* constructor raised made a constructor call of its own.
C19_FailedConstructionNotCached ==
    [][/\ \A t \in TaskIds :
             ~CtorFailed(tasks[t]) /\ CtorFailed(tasks'[t])
             => /\ models' = models
                /\ tasks[t].model \notin DOMAIN models'
                /\ ctorCalls'[tasks[t].model] = ctorCalls[tasks[t].model] + 1
       /\ \A t \in 1..Len(tasks') :
             tasks'[t].pc = "done" /\ CtorFailed(tasks'[t])
             => IF Cancelled(tasks'[t])
                THEN tasks'[t].escaped = "InvalidStateError"
                ELSE tasks'[t].future = Failure(tasks'[t].ex)
       /\ \A m \in Known :
             ctorCalls'[m] = ctorDone'[m]
                 + Cardinality({t \in 1..Len(tasks') :
                       tasks'[t].model = m /\ CtorFailed(tasks'[t])})]_vars

\* Two submissions for a name whose constructor raised in both: two
\* constructor calls, no registry entry, both failures stored.
C19_Witness ==
    \E t1, t2 \in TaskIds :
        /\ t1 # t2
        /\ tasks[t1].model = tasks[t2].model
        /\ tasks[t1].future = Failure("TypeError")
        /\ tasks[t2].future = Failure("TypeError")
        /\ ctorCalls[tasks[t1].model] = 2
        /\ tasks[t1].model \notin DOMAIN models

\* C20: the counter of every semaphore is 0 or 1, and it goes up only by
\* 1, in the last step of a task of that name whose acquire had succeeded.
C20_SemaphoreBinary ==
    [][\A m \in DOMAIN locks' :
          /\ locks'[m] \in {0, 1}
          /\ (m \in DOMAIN locks /\ locks'[m] > locks[m])
             => \E t \in TaskIds :
                   /\ tasks[t].model = m
                   /\ tasks[t].got_lock
                   /\ tasks[t].pc = "finally"
                   /\ tasks'[t].pc = "done"]_vars

\* A task that failed before it took a lock has finished without a
\* release, and a task that failed with its lock has given it back.
C20_Witness ==
    \E t1, t2 \in TaskIds :
        /\ Finished(t1)
        /\ ~tasks[t1].got_lock
        /\ tasks[t1].ex = "KeyError"
        /\ Finished(t2)
        /\ tasks[t2].got_lock
        /\ tasks[t2].ex # "none"
        /\ locks[tasks[t2].model] = 1

\* ------------------------------------------- properties of split_prompt
Called == sp # NotSplit

Count(tok, s) == Cardinality({i \in 1..Len(s) : s[i] = tok})

OnceEach(s) == \A m \in Markers : Count(m, s) = 1

Pos(tok, s) == CHOOSE i \in 1..Len(s) : s[i] = tok

InDocumentOrder(s) ==
    /\ OnceEach(s)
    /\ Pos(MarkRules, s) < Pos(MarkSummary, s)
    /\ Pos(MarkSummary, s) < Pos(MarkAffected, s)
    /\ Pos(MarkAffected, s) < Pos(MarkResult, s)

\* f is part without its leading and trailing whitespace.
IsTrimOf(f, part) ==
    \/ f = << >> /\ \A i \in 1..Len(part) : part[i] = Whitespace
    \/ \E a, b \in 1..Len(part) :
          /\ a <= b
          /\ part[a] # Whitespace
          /\ part[b] # Whitespace
          /\ \A i \in 1..Len(part) : (i < a \/ i > b) => part[i] = Whitespace
          /\ f = SubSeq(part, a, b)

IsText(c) == c # Whitespace

\* The document's content: its text and markers, whitespace aside.
Content(s) == SelectSeq(s, IsText)

\* C9 as stated: split_prompt returns a SplitPrompt for every prompt that
\* holds each of the four markers once, wherever they are.
C9_SplitOnceEach ==
    Called /\ OnceEach(raw) => sp.err = "none"

\* C9 as amended: for every prompt that holds each marker once and in the
\* order Rules, Summary, affected files, Result, split_prompt returns the
\* trimmed texts before, between and after the markers, and the fields
\* with the markers put back between them have the document's content.
C9_SplitInDocumentOrder ==
    Called /\ InDocumentOrder(raw)
    => LET r == Pos(MarkRules, raw)
           s == Pos(MarkSummary, raw)
           a == Pos(MarkAffected, raw)
           x == Pos(MarkResult, raw)
       IN  /\ sp.err = "none"
           /\ IsTrimOf(sp.Instructions, SubSeq(raw, 1, r - 1))
           /\ IsTrimOf(sp.Rules, SubSeq(raw, r + 1, s - 1))
           /\ IsTrimOf(sp.Summary, SubSeq(raw, s + 1, a - 1))
           /\ IsTrimOf(sp.AffectedFiles, SubSeq(raw, a + 1, x - 1))
           /\ IsTrimOf(sp.Result, SubSeq(raw, x + 1, Len(raw)))
           /\ Content(sp.Instructions \o <<MarkRules>> \o sp.Rules
                      \o <<MarkSummary>> \o sp.Summary
                      \o <<MarkAffected>> \o sp.AffectedFiles
                      \o <<MarkResult>> \o sp.Result) = Content(raw)

\* A prompt in document order with text and with whitespace next to a
\* marker has been split.
C9_Witness ==
    /\ Called
    /\ InDocumentOrder(raw)
    /\ sp.err = "none"
    /\ sp.Instructions # << >>
    /\ Len(sp.Instructions) < Pos(MarkRules, raw) - 1

\* C10: split_prompt raises for every prompt in which a marker is missing
\* or occurs twice or more often.
C10_SplitFailsOnMalformed ==
    Called /\ (\E m \in Markers : Count(m, raw) # 1) => sp.err = "ValueError"


\* The marker of the section after position i, where split_prompt found it.
After(tok, i, s) == CHOOSE j \in (i + 1)..Len(s) : s[j] = tok

Trimmed(f) ==
    f # << >> => f[1] # Whitespace /\ f[Len(f)] # Whitespace

HasText(part) == \E i \in 1..Len(part) : part[i] # Whitespace

AllFields(r) ==
    {r.Instructions, r.Rules, r.Summary, r.AffectedFiles, r.Result}

\* C15 as stated: every field of a returned SplitPrompt is without
\* leading and trailing whitespace and is not empty.
C15_FieldsNonEmpty ==
    Called /\ sp.err = "none"
    => \A f \in AllFields(sp) : Trimmed(f) /\ f # << >>

\* C15 as amended: every field of a returned SplitPrompt is without
\* leading and trailing whitespace, and it is not empty exactly when its
\* section of the prompt holds a character that is not whitespace.
C15_FieldsTrimmed ==
    Called /\ sp.err = "none"
    => LET r == After(MarkRules, 0, raw)
           s == After(MarkSummary, r, raw)
           a == After(MarkAffected, s, raw)
           x == After(MarkResult, a, raw)
       IN  /\ \A f \in AllFields(sp) : Trimmed(f)
           /\ sp.Instructions # << >> <=> HasText(SubSeq(raw, 1, r - 1))
           /\ sp.Rules # << >> <=> HasText(SubSeq(raw, r + 1, s - 1))
           /\ sp.Summary # << >> <=> HasText(SubSeq(raw, s + 1, a - 1))
           /\ sp.AffectedFiles # << >> <=> HasText(SubSeq(raw, a + 1, x - 1))
           /\ sp.Result # << >> <=> HasText(SubSeq(raw, x + 1, Len(raw)))

\* A returned SplitPrompt with a trimmed field that is not empty and a
\* field that is empty.
C15_Witness ==
    /\ Called
    /\ sp.err = "none"
    /\ sp.Instructions # << >>
    /\ Len(sp.Instructions) < After(MarkRules, 0, raw) - 1
    /\ sp.Rules = << >>

\* Every submission so far was made on the one event loop.
SingleLoop == \A t \in TaskIds : tasks[t].loop = 1

\* C21: with every submission on one event loop, a task that has started
\* and is at its acquire finds the lock of its model free: it does not
\* wait, its next step can be taken, and the loop is not blocked at it.
C21_LockFreeAtStart ==
    SingleLoop =>
        \A t \in TaskIds :
            At(t, "acquire") => ~WaitsForLock(t) /\ ENABLED Acquire(t)

\* On one event loop a task of a name has failed after it took the lock,
\* and the next task of that name has started and finds the lock free.
C21_Witness ==
    /\ SingleLoop
    /\ \E t1, t2 \in TaskIds :
          /\ t1 < t2
          /\ tasks[t1].model = tasks[t2].model
          /\ Finished(t1)
          /\ tasks[t1].got_lock
          /\ tasks[t1].future.state = "failure"
          /\ Running(t2)
          /\ At(t2, "acquire")
          /\ locks[tasks[t2].model] = 1

\* The handle got a result or a failure from its task.
Resolved(f) == f.state \in {"success", "failure"}

\* C22: with every submission on one event loop, a task has left the
\* queue only when every task submitted before it has run to its end
\* (its release included), whatever their model names; so at most one
\* task is between start and end, and a handle has its result or failure
\* only when the handles submitted before it are done.
C22_SubmissionOrder ==
    SingleLoop =>
        /\ \A t1, t2 \in TaskIds :
               t1 < t2 =>
                  /\ ~At(t2, "queued") => Finished(t1)
                  /\ Resolved(tasks[t2].future)
                     => Finished(t1) /\ Done(tasks[t1].future)
        /\ Cardinality({t \in TaskIds : ~At(t, "queued") /\ ~Finished(t)}) <= 1

\* Two submissions for different names on one event loop: the first has
\* run to its end and its handle has a failure, the second, submitted
\* while the first was still scheduled, has a result.
C22_Witness ==
    /\ SingleLoop
    /\ \E t1, t2 \in TaskIds :
          /\ t1 < t2
          /\ tasks[t1].model # tasks[t2].model
          /\ Finished(t1)
          /\ tasks[t1].future.state = "failure"
          /\ Finished(t2)
          /\ tasks[t2].future.state = "success"
          /\ ~tasks[t1].got_lock \/ locks[tasks[t1].model] = 1

\* ----------------------------------------------- properties of prompt()
Prompted == composed # NotPrompted

Range(s) == {s[i] : i \in 1..Len(s)}

\* The model input holds the Rules section: its marker.  (No field of a
\* SplitPrompt holds the marker: a prompt that splits has it once, between
\* the first two fields.)
HasRulesSection(input) == MarkRules \in Range(input)

\* C11: a prompt() call with include_rules=False that composes a model
\* input composes one without the Rules section, whatever the variant;
\* else it raises.
C11_RulesOmitted ==
    Prompted /\ ~composed.include_rules /\ composed.err = "none"
    => ~HasRulesSection(composed.input)

====
